---------------------------- MODULE Spec2Model ----------------------------
(***************************************************************************)
(* Model of the two algorithmic cores of the dashboard backend:            *)
(*                                                                         *)
(*   - api/db/filter_engine.py : compute_visible_set and its helpers       *)
(*     _build_adjacency_list and _bfs_expand, run against a message store  *)
(*     that an ingester keeps appending to while the wall clock advances;  *)
(*   - api/db/embeddings.py    : compute_proximity_edges, the sort +       *)
(*     sliding-window edge builder over the scorer's score map.            *)
(*                                                                         *)
(* Timestamps and the clock are integers (only their order is used by the  *)
(* code: `m.timestamp >= since`).  Scores and delta are integers on a      *)
(* fixed grid (the code only subtracts and compares them), so a strength   *)
(* is the exact fraction num/den.                                          *)
(*                                                                         *)
(* compute_visible_set is cut at its store reads.  The window start is     *)
(* computed from the clock twice (lines 115 and 40); the clock may advance *)
(* and the ingester may append a message between the window-id query and   *)
(* the structural query.  A write that lands before the window-id query or *)
(* between it and the filter-match query is ordered as a write before the  *)
(* call: no read separates the two orders.                                 *)
(*                                                                         *)
(* Specifications: Spec (one call of compute_visible_set over a growing    *)
(* store), SpecProx (compute_proximity_edges on every bounded input),      *)
(* SpecDelta (two proximity requests in a row over the same scores),       *)
(* SpecCap (the same with another max_edges), SpecConc (two interleaved    *)
(* calls of compute_visible_set over a store that is not written           *)
(* meanwhile), SpecFail (one call whose store reads may raise, on a        *)
(* connection of its own or of the caller), SpecBfs and SpecBatch          *)
(* (_bfs_expand and _batched_query on bounded inputs) and SpecCache (the   *)
(* embedding cache under concurrent loads and saves).                      *)
(***************************************************************************)
EXTENDS Integers, Sequences, FiniteSets, TLC

(***************************************************************************)
(* Bounds of the model.                                                    *)
(***************************************************************************)
MaxMsg == 4          \* messages the store can hold (ids 1..MaxMsg)
MaxRows == 2         \* rows of semantic_filter_results
MaxNodes == 4        \* embedded messages the scorer returns
MaxScore == 3        \* scores lie on the grid 0..MaxScore
MaxDelta == 2        \* delta on the same grid
MaxEdgeCap == 4      \* largest explicit max_edges a caller passes
MaxNeighborCap == 2  \* largest max_neighbors a caller passes
MaxConcMsg == 3      \* most messages stored under concurrent invocations
MaxBfsNodes == 3     \* node ids of the graphs _bfs_expand is applied to directly
MaxBfsDepth == 2     \* largest depth passed to _bfs_expand directly
MaxBatches == 2      \* id lists passed to _batched_query fill up to this many batches (and one id)
MaxSaves == 2        \* save_embeddings calls made while the server runs
MaxLoads == 2        \* _load_cache calls each request thread makes

\* Filter ids a caller may name in filter_modes.
FilterIds == {1, 2}

\* The five documented modes, and one string outside them.
Modes == {"off", "exclude", "include", "include_plus_1", "include_plus_2", "bogus"}

\* `hours` argument of every call (the window length), in clock units.
Hours == 1

\* Clock value at start-up: the window then starts at StartClock - Hours.
StartClock == Hours + 1

\* Timestamps a transcript entry can carry: any instant up to start-up.  With
\* one tick of the clock observed, a message is outside every window, inside
\* the start-up window only, or inside both.
Timestamps == 0 .. StartClock

VARIABLES
    messages,        \* table messages: id = index, [session_id, sequence_num, timestamp]
    results,         \* table semantic_filter_results: set of [filter_id, message_id, matches]
    now,             \* wall clock (datetime.now)
    pc,              \* position of the running compute_visible_set call
    filter_modes,    \* argument of the running / last call
    since,           \* window start computed for the window-id query
    seen,            \* number of stored messages when the window-id query ran
    all_ids,         \* local all_ids
    filter_matches,  \* local filter_matches
    adj,             \* local adj
    adj_rows,        \* rows fetched by the structural query
    ret,             \* value returned by the last call
    scores,          \* search_by_query's map: scores[id], ids ascending
    delta,           \* arguments of compute_proximity_edges
    max_edges,
    max_neighbors,
    prox_pc,         \* "init" before, "done" after compute_proximity_edges
    prox_ret,        \* value returned by compute_proximity_edges
    prev_delta,      \* delta of the request before the last one
    prev_ret,        \* value returned to the request before the last one
    calls,           \* concurrent invocations: calls[c] = [pc, filter_modes, ret, store]
    frames,          \* their locals: frames[f] = [all_ids, filter_matches, adj]
    overlap,         \* TRUE once an invocation has started while another was running
    queries,         \* names of the store reads the call has issued, in order
    failed_read,     \* the read that raised, "none" while none has
    owns_conn,       \* local owns_conn: the call opened the connection itself
    conn_open,       \* the connection the call works on is open
    cur_open,        \* the call's cursor is open
    bfs,             \* a direct _bfs_expand application: arguments and result
    batch,           \* a direct _batched_query application: arguments and result
    emb              \* the embedding store, its module cache and their threads

vis_vars == <<messages, results, now, pc, filter_modes, since, seen, all_ids,
              filter_matches, adj, adj_rows, ret>>

prox_vars == <<scores, delta, max_edges, max_neighbors, prox_pc, prox_ret,
               prev_delta, prev_ret>>

conc_vars == <<calls, frames, overlap>>

io_vars == <<queries, failed_read, owns_conn, conn_open, cur_open>>

aux_vars == <<bfs, batch, emb>>

vars == <<vis_vars, prox_vars, conc_vars, io_vars, aux_vars>>

----------------------------------------------------------------------------
(***************************************************************************)
(* The store.                                                              *)
(***************************************************************************)

\* Session of the k-th ingested message: transcripts of two sessions are
\* imported interleaved, every third message belongs to sess-b.
SessionOf(id) == IF id % 3 = 0 THEN "sess-b" ELSE "sess-a"

\* ORDER BY session_id compares the strings; this is their rank.
SessionRank(s) == IF s = "sess-a" THEN 1 ELSE 2

\* parse_transcript numbers the messages of a session 0, 1, 2, ...
NextSeq(msgs, s) == Cardinality({i \in 1..Len(msgs) : msgs[i].session_id = s})

\* SELECT m.id FROM messages m JOIN sessions s ... WHERE m.timestamp >= since
\* (import_session stores the session row before its messages, so the join
\* keeps every message).
WindowIds(msgs, t) == {i \in 1..Len(msgs) : msgs[i].timestamp >= t}

\* Faulty variant of SortAsc: the list comes out in descending order.
RECURSIVE SortAsc_Descending(_)
SortAsc_Descending(S) ==
    IF S = {} THEN <<>>
    ELSE LET m == CHOOSE x \in S : \A y \in S : x >= y
         IN  <<m>> \o SortAsc_Descending(S \ {m})

\* The ids of a finite set of integers in ascending order: sorted(...).
RECURSIVE SortAsc(_)
SortAsc(S) ==
    IF S = {} THEN <<>>
    ELSE LET m == CHOOSE x \in S : \A y \in S : x <= y
         IN  <<m>> \o SortAsc(S \ {m})

\* Row a precedes row b under ORDER BY m.session_id, m.sequence_num.
RowBefore(msgs, a, b) ==
    \/ SessionRank(msgs[a].session_id) < SessionRank(msgs[b].session_id)
    \/ /\ msgs[a].session_id = msgs[b].session_id
       /\ msgs[a].sequence_num <= msgs[b].sequence_num

RECURSIVE OrderRows(_, _)
OrderRows(msgs, S) ==
    IF S = {} THEN <<>>
    ELSE LET m == CHOOSE x \in S : \A y \in S : RowBefore(msgs, x, y)
         IN  <<m>> \o OrderRows(msgs, S \ {m})

\* The structural query of _build_adjacency_list: the ids of the rows with
\* timestamp >= since, ordered by (session_id, sequence_num).
StructuralRows(msgs, t) == OrderRows(msgs, WindowIds(msgs, t))

----------------------------------------------------------------------------
(***************************************************************************)
(* _build_adjacency_list and _bfs_expand.                                  *)
(***************************************************************************)

Min(a, b) == IF a <= b THEN a ELSE b

\* adj.get(node_id, [])
AdjGet(a, n) == IF n \in DOMAIN a THEN a[n] ELSE <<>>

\* Faulty variant of AdjAppend: the list of k is replaced, not appended to
\* (adj[k] = [v]).
AdjAppend_Overwrite(a, k, v) ==
    [x \in (DOMAIN a) \cup {k} |-> IF x = k THEN <<v>> ELSE a[x]]

\* adj[k].append(v) on a defaultdict(list)
AdjAppend(a, k, v) ==
    [x \in (DOMAIN a) \cup {k} |-> IF x = k THEN Append(AdjGet(a, k), v) ELSE a[x]]

\* The loop over rows: row i is linked to the row before it when both carry
\* the same session_id.
RECURSIVE AdjLoop(_, _, _, _)
AdjLoop(msgs, rows, i, a) ==
    IF i > Len(rows) THEN a
    ELSE LET msg_id  == rows[i]
             prev_id == IF i = 1 THEN 0 ELSE rows[i - 1]
             linked  == /\ i > 1
                        /\ msgs[msg_id].session_id = msgs[prev_id].session_id
         IN  AdjLoop(msgs, rows, i + 1,
                     IF linked
                     THEN AdjAppend(AdjAppend(a, prev_id, msg_id), msg_id, prev_id)
                     ELSE a)

\* Faulty variant of build_adjacency_list: consecutive rows are linked without
\* comparing their session_id.
RECURSIVE AdjLoop_AnySession(_, _, _)
AdjLoop_AnySession(rows, i, a) ==
    IF i > Len(rows) THEN a
    ELSE AdjLoop_AnySession(rows, i + 1,
             IF i > 1
             THEN AdjAppend(AdjAppend(a, rows[i - 1], rows[i]), rows[i], rows[i - 1])
             ELSE a)

build_adjacency_list_AnySession(msgs, rows) ==
    AdjLoop_AnySession(rows, 1, [x \in {} |-> <<>>])

EmptyAdj == [x \in {} |-> <<>>]

build_adjacency_list(msgs, rows) == AdjLoop(msgs, rows, 1, EmptyAdj)

\* Faulty variant of Neighbours: only the first neighbour of a node is followed.
Neighbours_FirstOnly(a, F) ==
    UNION {{AdjGet(a, n)[k] : k \in 1..(IF Len(AdjGet(a, n)) = 0 THEN 0 ELSE 1)} : n \in F}

\* Neighbours of a set of nodes.
Neighbours(a, F) == UNION {{AdjGet(a, n)[k] : k \in 1..Len(AdjGet(a, n))} : n \in F}

RECURSIVE BfsLoop(_, _, _, _)
BfsLoop(visited, frontier, depth, a) ==
    IF depth = 0 THEN visited
    ELSE LET next_frontier == Neighbours(a, frontier) \ visited
         IN  BfsLoop(visited \cup next_frontier, next_frontier, depth - 1, a)

\* Faulty variant of bfs_expand: one hop too many.
bfs_expand_ExtraHop(seeds, depth, a) == BfsLoop(seeds, seeds, depth + 1, a)

bfs_expand(seeds, depth, a) == BfsLoop(seeds, seeds, depth, a)

----------------------------------------------------------------------------
(***************************************************************************)
(* compute_visible_set.                                                    *)
(***************************************************************************)

\* Faulty variant of ActiveIds: entries in mode off are kept.
ActiveIds_KeepsOff(fm) == DOMAIN fm

\* active_modes = {fid: mode for fid, mode in filter_modes.items() if mode != "off"}
ActiveIds(fm) == {fid \in DOMAIN fm : fm[fid] /= "off"}

\* Faulty variant of MatchRows: the query forgets `AND matches = 1`.
MatchRows_AnyVerdict(res, ids) == {r \in res : r.filter_id \in ids}

\* SELECT filter_id, message_id FROM semantic_filter_results
\*  WHERE filter_id IN (ids) AND matches = 1
MatchRows(res, ids) == {r \in res : r.filter_id \in ids /\ r.matches = 1}

\* filter_matches[row["filter_id"]].add(row["message_id"])
BuildFilterMatches(rows) ==
    [fid \in {r.filter_id : r \in rows} |->
        {r.message_id : r \in {q \in rows : q.filter_id = fid}}]

\* filter_matches.get(fid, set())
MatchesGet(fmatch, fid) == IF fid \in DOMAIN fmatch THEN fmatch[fid] ELSE {}

include_modes == {"include", "include_plus_1", "include_plus_2"}

\* Faulty variant of has_includes: any active filter counts as an include.
has_includes_AnyActive(fm) == ActiveIds(fm) /= {}

has_includes(fm) == \E fid \in ActiveIds(fm) : fm[fid] \in include_modes

\* Faulty variant of needs_expansion: any include-family mode asks for adjacency.
needs_expansion_AnyInclude(fm) == has_includes(fm)

needs_expansion(fm) ==
    \E fid \in ActiveIds(fm) : fm[fid] \in {"include_plus_1", "include_plus_2"}

\* Faulty variant of Contribution: the expanded set is not intersected with all_ids.
Contribution_NoClip(fm, fid, ids, fmatch, a) ==
    LET matching == MatchesGet(fmatch, fid) \cap ids
    IN  CASE fm[fid] = "include"        -> matching
          [] fm[fid] = "include_plus_1" -> bfs_expand(matching, 1, a)
          [] fm[fid] = "include_plus_2" -> bfs_expand(matching, 2, a)
          [] OTHER                      -> {}

\* What one active filter adds to include_union.
Contribution(fm, fid, ids, fmatch, a) ==
    LET matching == MatchesGet(fmatch, fid) \cap ids
    IN  CASE fm[fid] = "include"        -> matching
          [] fm[fid] = "include_plus_1" -> bfs_expand(matching, 1, a) \cap ids
          [] fm[fid] = "include_plus_2" -> bfs_expand(matching, 2, a) \cap ids
          [] OTHER                      -> {}

IncludeUnion(fm, ids, fmatch, a) ==
    UNION {Contribution(fm, fid, ids, fmatch, a) : fid \in ActiveIds(fm)}

\* Faulty variant of ExcludeMatches: every mode outside the include family
\* removes its matches (a trailing else branch).
ExcludeMatches_NonInclude(fm, fmatch) ==
    UNION {MatchesGet(fmatch, fid) :
              fid \in {f \in ActiveIds(fm) : fm[f] \notin include_modes}}

\* The matched sets of the filters in mode exclude.
ExcludeMatches(fm, fmatch) ==
    UNION {MatchesGet(fmatch, fid) : fid \in {f \in ActiveIds(fm) : fm[f] = "exclude"}}

\* Faulty variant of Visible: exclude matches are removed from the all-nodes base set
\* only, not from the include union.
Visible_ExcludeBaseOnly(fm, ids, fmatch, a) ==
    IF has_includes(fm)
    THEN UNION {Contribution(fm, fid, ids, fmatch, a) : fid \in ActiveIds(fm)}
    ELSE ids \ ExcludeMatches(fm, fmatch)

\* visible after the include and the exclude loops.
Visible(fm, ids, fmatch, a) ==
    (IF has_includes(fm) THEN IncludeUnion(fm, ids, fmatch, a) ELSE ids)
        \ ExcludeMatches(fm, fmatch)

\* The early return when no filter is active: visible_message_ids is None.
NoFiltering(total) ==
    [is_none |-> TRUE, visible_message_ids |-> <<>>,
     total_nodes |-> total, visible_count |-> total]

\* The final return.
Filtered(visible, total) ==
    [is_none |-> FALSE, visible_message_ids |-> SortAsc(visible),
     total_nodes |-> total, visible_count |-> Cardinality(visible)]

NoReturn == [is_none |-> TRUE, visible_message_ids |-> <<>>,
             total_nodes |-> 0, visible_count |-> 0]

\* The maps a caller can pass as filter_modes.
FilterModeMaps == UNION {[D -> Modes] : D \in SUBSET FilterIds}

----------------------------------------------------------------------------
VisInit ==
    /\ messages = <<>>
    /\ results = {}
    /\ now = StartClock
    /\ pc = "idle"
    /\ filter_modes = <<>>
    /\ since = 0
    /\ seen = 0
    /\ all_ids = {}
    /\ filter_matches = <<>>
    /\ adj = EmptyAdj
    /\ adj_rows = <<>>
    /\ ret = NoReturn

\* import_session inserts the next message of a transcript: between calls, or
\* (once per call) between the window-id query and the structural query.
Ingest(ts) ==
    /\ \/ pc = "idle"
       \/ pc = "structural" /\ Len(messages) = seen
    /\ Len(messages) < MaxMsg
    /\ LET id == Len(messages) + 1
           s  == SessionOf(id)
       IN  messages' = Append(messages,
               [session_id |-> s, sequence_num |-> NextSeq(messages, s), timestamp |-> ts])
    /\ UNCHANGED <<results, now, pc, filter_modes, since, seen, all_ids,
                   filter_matches, adj, adj_rows, ret, prox_vars, conc_vars,
                   io_vars, aux_vars>>

\* Verdict of the scorers (rule or LLM) on a message: the content of message 1
\* does not match filter 1, every other pair matches.
Verdict(fid, mid) == IF fid = 1 /\ mid = 1 THEN 0 ELSE 1

\* A scorer stores its verdict on one message for one filter (the table has
\* UNIQUE (filter_id, message_id)).  The message id need not be stored: the
\* table's foreign key is not enforced.
Score(fid, mid) ==
    /\ pc = "idle"
    /\ Cardinality(results) < MaxRows
    /\ \A r \in results : ~(r.filter_id = fid /\ r.message_id = mid)
    /\ results' = results \cup {[filter_id |-> fid, message_id |-> mid, matches |-> Verdict(fid, mid)]}
    /\ UNCHANGED <<messages, now, pc, filter_modes, since, seen, all_ids,
                   filter_matches, adj, adj_rows, ret, prox_vars, conc_vars,
                   io_vars, aux_vars>>

\* Time passes between the two evaluations of datetime.now().
Tick ==
    /\ pc = "structural"
    /\ now = StartClock
    /\ now' = now + 1
    /\ UNCHANGED <<messages, results, pc, filter_modes, since, seen, all_ids,
                   filter_matches, adj, adj_rows, ret, prox_vars, conc_vars,
                   io_vars, aux_vars>>

\* Before a call: a caller-supplied connection is open, one the call opens
\* itself does not exist yet.
ConnInit(owns) ==
    /\ owns_conn = owns
    /\ conn_open = ~owns
    /\ cur_open = FALSE
    /\ queries = <<>>
    /\ failed_read = "none"

\* Faulty variant of ConnAfterExit: the connection is closed whoever opened it.
ConnAfterExit_AlwaysClose(owns, open) == FALSE

\* The finally block: conn.close() only under owns_conn.
ConnAfterExit(owns, open) == IF owns THEN FALSE ELSE open

\* get_connection() under owns_conn, conn.cursor(), and the try block entered.
Entered ==
    /\ cur_open' = TRUE
    /\ conn_open' = TRUE
    /\ UNCHANGED owns_conn

\* Leaving the try block, by a return or by an exception: cur.close(), then
\* conn.close() under owns_conn.
Exited ==
    /\ cur_open' = FALSE
    /\ conn_open' = ConnAfterExit(owns_conn, TRUE)
    /\ UNCHANGED owns_conn

\* compute_visible_set, up to the filter-match query.
Call(fm) ==
    /\ pc = "idle"
    /\ filter_modes' = fm
    /\ since' = now - Hours
    /\ seen' = Len(messages)
    /\ all_ids' = WindowIds(messages, now - Hours)
    /\ IF ActiveIds(fm) = {}
       THEN /\ ret' = NoFiltering(Cardinality(all_ids'))
            /\ pc' = "done"
            /\ Exited
       ELSE /\ ret' = ret
            /\ pc' = "matches"
            /\ Entered
    /\ queries' = <<"window">>
    /\ UNCHANGED <<messages, results, now, filter_matches, adj, adj_rows, prox_vars,
                   conc_vars, failed_read, aux_vars>>

\* compute_visible_set, from the filter-match query up to the structural query.
ReadMatches ==
    /\ pc = "matches"
    /\ filter_matches' = BuildFilterMatches(MatchRows(results, ActiveIds(filter_modes)))
    /\ IF needs_expansion(filter_modes)
       THEN /\ pc' = "structural"
            /\ ret' = ret
            /\ UNCHANGED <<owns_conn, conn_open, cur_open>>
       ELSE /\ pc' = "done"
            /\ ret' = Filtered(Visible(filter_modes, all_ids, filter_matches', EmptyAdj),
                               Cardinality(all_ids))
            /\ Exited
    /\ queries' = Append(queries, "matches")
    /\ UNCHANGED <<messages, results, now, filter_modes, since, seen, all_ids,
                   adj, adj_rows, prox_vars, conc_vars, failed_read, aux_vars>>

\* compute_visible_set, from the structural query to the return.
ReadStructural ==
    /\ pc = "structural"
    /\ adj_rows' = StructuralRows(messages, now - Hours)
    /\ adj' = build_adjacency_list(messages, adj_rows')
    /\ ret' = Filtered(Visible(filter_modes, all_ids, filter_matches, adj'),
                       Cardinality(all_ids))
    /\ pc' = "done"
    /\ Exited
    /\ queries' = Append(queries, "structural")
    /\ UNCHANGED <<messages, results, now, filter_modes, since, seen, all_ids,
                   filter_matches, prox_vars, conc_vars, failed_read, aux_vars>>

\* Faulty variant of Raised: the exception is swallowed and "no filtering" returned.
Raised_ReturnsUnfiltered(total) == [pc |-> "done", ret |-> NoFiltering(total)]

\* cur.execute raises inside the try block, which has no except clause: the
\* exception leaves the function and nothing is returned.
Raised(total) == [pc |-> "failed", ret |-> NoReturn]

\* compute_visible_set when the window-id query raises.
WindowReadFails(fm) ==
    /\ pc = "idle"
    /\ filter_modes' = fm
    /\ since' = now - Hours
    /\ pc' = Raised(0).pc
    /\ ret' = Raised(0).ret
    /\ Exited
    /\ queries' = <<"window">>
    /\ failed_read' = "window"
    /\ UNCHANGED <<messages, results, now, seen, all_ids, filter_matches, adj,
                   adj_rows, prox_vars, conc_vars, aux_vars>>

\* compute_visible_set when the filter-match query raises.
MatchReadFails ==
    /\ pc = "matches"
    /\ pc' = Raised(Cardinality(all_ids)).pc
    /\ ret' = Raised(Cardinality(all_ids)).ret
    /\ Exited
    /\ queries' = Append(queries, "matches")
    /\ failed_read' = "matches"
    /\ UNCHANGED <<messages, results, now, filter_modes, since, seen, all_ids,
                   filter_matches, adj, adj_rows, prox_vars, conc_vars, aux_vars>>

\* compute_visible_set when the structural query raises.
StructuralReadFails ==
    /\ pc = "structural"
    /\ pc' = Raised(Cardinality(all_ids)).pc
    /\ ret' = Raised(Cardinality(all_ids)).ret
    /\ Exited
    /\ queries' = Append(queries, "structural")
    /\ failed_read' = "structural"
    /\ UNCHANGED <<messages, results, now, filter_modes, since, seen, all_ids,
                   filter_matches, adj, adj_rows, prox_vars, conc_vars, aux_vars>>

----------------------------------------------------------------------------
(***************************************************************************)
(* compute_proximity_edges.                                                *)
(***************************************************************************)

\* sorted(scores.items(), key=lambda x: x[1]): the ids by ascending score; the
\* sort is stable and the map is in ascending id order, so ties keep id order.
\* Faulty variant of SortByScore: the nodes by descending score (reverse=True).
RECURSIVE SortByScore_Descending(_, _)
SortByScore_Descending(sc, S) ==
    IF S = {} THEN <<>>
    ELSE LET m == CHOOSE x \in S : \A y \in S :
                      \/ sc[x] > sc[y]
                      \/ sc[x] = sc[y] /\ x <= y
         IN  <<m>> \o SortByScore_Descending(sc, S \ {m})

RECURSIVE SortByScore(_, _)
SortByScore(sc, S) ==
    IF S = {} THEN <<>>
    ELSE LET m == CHOOSE x \in S : \A y \in S :
                      \/ sc[x] < sc[y]
                      \/ sc[x] = sc[y] /\ x <= y
         IN  <<m>> \o SortByScore(sc, S \ {m})

sorted_nodes(sc) == SortByScore(sc, DOMAIN sc)

\* degree.get(id, 0)
DegreeGet(degree, id) == IF id \in DOMAIN degree THEN degree[id] ELSE 0

\* Faulty variant of DegreeInc: the counter goes up by 2 for one edge.
DegreeInc_ByTwo(degree, id) ==
    [x \in (DOMAIN degree) \cup {id} |->
        IF x = id THEN DegreeGet(degree, id) + 2 ELSE degree[x]]

\* Faulty variant of DegreeInc: the counter is set to 1 instead of incremented.
DegreeInc_Reset(degree, id) ==
    [x \in (DOMAIN degree) \cup {id} |-> IF x = id THEN 1 ELSE degree[x]]

DegreeInc(degree, id) ==
    [x \in (DOMAIN degree) \cup {id} |->
        IF x = id THEN DegreeGet(degree, id) + 1 ELSE degree[x]]

\* Faulty variant of AdvanceTrailing: the trailing pointer never moves.
AdvanceTrailing_Stuck(sc, sn, i, j, d) == j

\* Faulty variant of AdvanceTrailing: a difference equal to delta is pushed out of
\* the window (>= in place of >).
RECURSIVE AdvanceTrailing_Strict(_, _, _, _, _)
AdvanceTrailing_Strict(sc, sn, i, j, d) ==
    IF j < i /\ sc[sn[i]] - sc[sn[j]] >= d
    THEN AdvanceTrailing_Strict(sc, sn, i, j + 1, d)
    ELSE j

\* Faulty variant of AdvanceTrailing: a delta of 0 is taken as "no limit"
\* (while j < i and delta and ...).
RECURSIVE AdvanceTrailing_ZeroUnbounded(_, _, _, _, _)
AdvanceTrailing_ZeroUnbounded(sc, sn, i, j, d) ==
    IF j < i /\ d > 0 /\ sc[sn[i]] - sc[sn[j]] > d
    THEN AdvanceTrailing_ZeroUnbounded(sc, sn, i, j + 1, d)
    ELSE j

\* while j < i and (score_i - sorted_nodes[j][1]) > delta: j += 1
RECURSIVE AdvanceTrailing(_, _, _, _, _)
AdvanceTrailing(sc, sn, i, j, d) ==
    IF j < i /\ sc[sn[i]] - sc[sn[j]] > d
    THEN AdvanceTrailing(sc, sn, i, j + 1, d)
    ELSE j

\* Faulty variant of Strength: the difference is not scaled by delta
\* (1.0 - diff).
Strength_NoDivide(diff, d) ==
    IF d > 0 THEN [num |-> 1 - diff, den |-> 1] ELSE [num |-> 1, den |-> 1]

\* Faulty variant of Strength: the scaled distance itself (diff / delta).
Strength_Distance(diff, d) ==
    IF d > 0 THEN [num |-> diff, den |-> d] ELSE [num |-> 1, den |-> 1]

\* strength = 1.0 - diff / delta if delta > 0 else 1.0, as the fraction num/den.
Strength(diff, d) ==
    IF d > 0 THEN [num |-> d - diff, den |-> d] ELSE [num |-> 1, den |-> 1]

Abs(x) == IF x < 0 THEN 0 - x ELSE x

\* The inner loop `for k in range(i - 1, j - 1, -1)`.  st.stop is set when the
\* loop hits the max_edges return.
RECURSIVE InnerLoop(_, _, _, _, _, _, _, _, _)
InnerLoop(sc, sn, i, k, j, st, d, me, mn) ==
    IF k < j THEN st
    ELSE
      LET id_i == sn[i]
          id_k == sn[k]
      IN  IF mn > 0 /\ DegreeGet(st.degree, id_i) >= mn THEN st
          ELSE IF mn > 0 /\ DegreeGet(st.degree, id_k) >= mn
               THEN InnerLoop(sc, sn, i, k - 1, j, st, d, me, mn)
          ELSE
            LET diff  == Abs(sc[id_i] - sc[id_k])
                edge  == [source |-> id_k, target |-> id_i,
                          strength |-> Strength(diff, d)]
                edges == Append(st.edges, edge)
                deg   == IF mn > 0
                         THEN DegreeInc(DegreeInc(st.degree, id_i), id_k)
                         ELSE st.degree
            IN  IF Len(edges) >= me
                THEN [edges |-> edges, degree |-> deg, stop |-> TRUE]
                ELSE InnerLoop(sc, sn, i, k - 1, j,
                               [edges |-> edges, degree |-> deg, stop |-> FALSE],
                               d, me, mn)

\* Faulty variant of OuterLoop: the scan of node i starts at the last node
\* (range(n - 1, j - 1, -1)) and so also pairs i with the nodes after it.
RECURSIVE OuterLoop_ScansAhead(_, _, _, _, _, _, _, _)
OuterLoop_ScansAhead(sc, sn, i, j, st, d, me, mn) ==
    IF i > Len(sn) THEN st.edges
    ELSE
      LET j2 == AdvanceTrailing(sc, sn, i, j, d)
      IN  IF mn > 0 /\ DegreeGet(st.degree, sn[i]) >= mn
          THEN OuterLoop_ScansAhead(sc, sn, i + 1, j2, st, d, me, mn)
          ELSE LET st2 == InnerLoop(sc, sn, i, Len(sn), j2, st, d, me, mn)
               IN  IF st2.stop THEN st2.edges
                   ELSE OuterLoop_ScansAhead(sc, sn, i + 1, j2, st2, d, me, mn)

\* The outer loop `for i in range(n)`.
RECURSIVE OuterLoop(_, _, _, _, _, _, _, _)
OuterLoop(sc, sn, i, j, st, d, me, mn) ==
    IF i > Len(sn) THEN st.edges
    ELSE
      LET j2 == AdvanceTrailing(sc, sn, i, j, d)
      IN  IF mn > 0 /\ DegreeGet(st.degree, sn[i]) >= mn
          THEN OuterLoop(sc, sn, i + 1, j2, st, d, me, mn)
          ELSE LET st2 == InnerLoop(sc, sn, i, i - 1, j2, st, d, me, mn)
               IN  IF st2.stop THEN st2.edges
                   ELSE OuterLoop(sc, sn, i + 1, j2, st2, d, me, mn)

EmptyDegree == [x \in {} |-> 0]

\* Default of the max_edges parameter.
DefaultMaxEdges == 100000

\* Faulty variant of ProximityEdges: all edges are collected and the cap keeps
\* the last max_edges of them.
ProximityEdges_KeepsLast(sc, d, me, mn) ==
    LET all == OuterLoop(sc, sorted_nodes(sc), 1, 1,
                   [edges |-> <<>>, degree |-> EmptyDegree, stop |-> FALSE],
                   d, DefaultMaxEdges, mn)
    IN  SubSeq(all, Len(all) - Min(me, Len(all)) + 1, Len(all))

ProximityEdges(sc, d, me, mn) ==
    OuterLoop(sc, sorted_nodes(sc), 1, 1,
              [edges |-> <<>>, degree |-> EmptyDegree, stop |-> FALSE], d, me, mn)

\* Faulty variant of compute_proximity_edges: count is the number of scored
\* nodes (len(scores)).
compute_proximity_edges_CountsNodes(sc, d, me, mn) ==
    IF sc = <<>>
    THEN [edges |-> <<>>, scores |-> <<>>, count |-> 0]
    ELSE [edges |-> ProximityEdges(sc, d, me, mn), scores |-> sc, count |-> Len(sc)]

compute_proximity_edges(sc, d, me, mn) ==
    IF sc = <<>>
    THEN [edges |-> <<>>, scores |-> <<>>, count |-> 0]
    ELSE LET edges == ProximityEdges(sc, d, me, mn)
         IN  [edges |-> edges, scores |-> sc, count |-> Len(edges)]

\* The score maps the scorer can return.
ScoreMaps == UNION {[1..n -> 0..MaxScore] : n \in 0..MaxNodes}

NoProxReturn == [edges |-> <<>>, scores |-> <<>>, count |-> 0]

ProxIdle ==
    /\ scores = <<>>
    /\ delta = 0
    /\ max_edges = 0
    /\ max_neighbors = 0
    /\ prox_pc = "init"
    /\ prox_ret = NoProxReturn
    /\ prev_delta = 0
    /\ prev_ret = NoProxReturn

ProxInit ==
    /\ scores \in ScoreMaps
    /\ delta \in 0..MaxDelta
    /\ max_edges \in (0..MaxEdgeCap) \cup {DefaultMaxEdges}
    /\ max_neighbors \in 0..MaxNeighborCap
    /\ prox_pc = "init"
    /\ prox_ret = NoProxReturn
    /\ prev_delta = 0
    /\ prev_ret = NoProxReturn

ComputeProximityEdges ==
    /\ prox_pc = "init"
    /\ prox_ret' = compute_proximity_edges(scores, delta, max_edges, max_neighbors)
    /\ prox_pc' = "done"
    /\ UNCHANGED <<vis_vars, scores, delta, max_edges, max_neighbors,
                   prev_delta, prev_ret, conc_vars, io_vars, aux_vars>>

\* A second proximity-edges request for the same query text with another
\* delta: the handler keeps nothing of the first, and the scorer returns the
\* same map while the embedding cache is not invalidated.
ComputeAgain(d2) ==
    /\ prox_pc = "done"
    /\ prev_delta' = delta
    /\ prev_ret' = prox_ret
    /\ delta' = d2
    /\ prox_ret' = compute_proximity_edges(scores, d2, max_edges, max_neighbors)
    /\ prox_pc' = "again"
    /\ UNCHANGED <<vis_vars, scores, max_edges, max_neighbors, conc_vars,
                   io_vars, aux_vars>>

----------------------------------------------------------------------------
(***************************************************************************)
(* Concurrent invocations of compute_visible_set, each on its own          *)
(* connection, over a store nobody writes to while they run.               *)
(***************************************************************************)

Invocations == {1, 2}

\* The filter_modes the concurrent callers pass: a mode for every filter.
ConcModeMaps == [FilterIds -> Modes \ {"bogus"}]

\* Stored timestamps: before the window, or inside it.
ConcTimestamps == {0, StartClock}

\* Faulty variant of Frame: the locals live in one module-level slot.
Frame_Shared(c) == 1

\* all_ids, filter_matches and adj are locals of the function: every
\* invocation has its own.
Frame(c) == c

\* compute_visible_set run from start to end without another caller.
compute_visible_set(msgs, res, t, fm) ==
    LET ids == WindowIds(msgs, t - Hours)
    IN  IF ActiveIds(fm) = {}
        THEN NoFiltering(Cardinality(ids))
        ELSE LET fmatch == BuildFilterMatches(MatchRows(res, ActiveIds(fm)))
                 a == IF needs_expansion(fm)
                      THEN build_adjacency_list(msgs, StructuralRows(msgs, t - Hours))
                      ELSE EmptyAdj
             IN  Filtered(Visible(fm, ids, fmatch, a), Cardinality(ids))

StoreContent == [messages |-> messages, results |-> results]

IdleCall ==
    [pc |-> "idle", filter_modes |-> <<>>, ret |-> NoReturn,
     store |-> [messages |-> <<>>, results |-> {}]]

EmptyFrame == [all_ids |-> {}, filter_matches |-> <<>>, adj |-> EmptyAdj]

ConcIdle ==
    /\ calls = [c \in Invocations |-> IdleCall]
    /\ frames = [c \in Invocations |-> EmptyFrame]
    /\ overlap = FALSE

AllIdle == \A c \in Invocations : calls[c].pc = "idle"

Running(c) == calls[c].pc \in {"matches", "structural"}

\* The store is filled before the invocations start.
StoreIngest(ts) ==
    /\ AllIdle
    /\ Len(messages) < MaxConcMsg
    /\ Ingest(ts)

StoreScore(fid, mid) ==
    /\ AllIdle
    /\ Score(fid, mid)

\* Invocation c, up to the filter-match query.  The invocations are numbered
\* in the order they start.
ConcCall(c, fm) ==
    /\ calls[c].pc = "idle"
    /\ \A o \in Invocations : o < c => calls[o].pc /= "idle"
    /\ \A o \in Invocations \ {c} : calls[o].filter_modes /= fm
    /\ frames' = [frames EXCEPT ![Frame(c)].all_ids = WindowIds(messages, now - Hours)]
    /\ calls' = [calls EXCEPT ![c] =
          IF ActiveIds(fm) = {}
          THEN [pc |-> "done", filter_modes |-> fm,
                ret |-> NoFiltering(Cardinality(frames'[Frame(c)].all_ids)),
                store |-> StoreContent]
          ELSE [pc |-> "matches", filter_modes |-> fm, ret |-> NoReturn,
                store |-> StoreContent]]
    /\ overlap' = (overlap \/ \E o \in Invocations \ {c} : Running(o))
    /\ UNCHANGED <<vis_vars, prox_vars, io_vars, aux_vars>>

\* Invocation c, from the filter-match query up to the structural query.
ConcReadMatches(c) ==
    /\ calls[c].pc = "matches"
    /\ frames' = [frames EXCEPT ![Frame(c)].filter_matches =
          BuildFilterMatches(MatchRows(results, ActiveIds(calls[c].filter_modes)))]
    /\ calls' = [calls EXCEPT ![c] =
          IF needs_expansion(calls[c].filter_modes)
          THEN [@ EXCEPT !.pc = "structural"]
          ELSE [@ EXCEPT !.pc = "done",
                         !.ret = Filtered(Visible(calls[c].filter_modes,
                                                  frames'[Frame(c)].all_ids,
                                                  frames'[Frame(c)].filter_matches,
                                                  EmptyAdj),
                                          Cardinality(frames'[Frame(c)].all_ids))]]
    /\ UNCHANGED <<vis_vars, prox_vars, overlap, io_vars, aux_vars>>

\* Invocation c, from the structural query to the return.
ConcReadStructural(c) ==
    /\ calls[c].pc = "structural"
    /\ frames' = [frames EXCEPT ![Frame(c)].adj =
          build_adjacency_list(messages, StructuralRows(messages, now - Hours))]
    /\ calls' = [calls EXCEPT ![c] =
          [@ EXCEPT !.pc = "done",
                    !.ret = Filtered(Visible(calls[c].filter_modes,
                                             frames'[Frame(c)].all_ids,
                                             frames'[Frame(c)].filter_matches,
                                             frames'[Frame(c)].adj),
                                     Cardinality(frames'[Frame(c)].all_ids))]]
    /\ UNCHANGED <<vis_vars, prox_vars, overlap, io_vars, aux_vars>>

----------------------------------------------------------------------------
(***************************************************************************)
(* Specifications.                                                         *)
(***************************************************************************)

\* No direct application of _bfs_expand or _batched_query is under way, and
\* the embedding store is not in use.
BfsIdle == bfs = [pc |-> "idle"]

BatchIdle == batch = [pc |-> "idle"]

\* _embedding_cache = None
NoCache == [is_none |-> TRUE, ids |-> {}]

\* Request threads that reach _load_cache (through search_by_query).
Loaders == {1, 2}

IdleLoad == [pc |-> "idle", snap |-> {}, ret |-> NoCache, after |-> 0, calls |-> 0]

\* At start-up: no embeddings stored, the module cache empty, no thread inside
\* _load_cache or save_embeddings.
EmbIdle ==
    emb = [db |-> {}, cache |-> NoCache,
           load |-> [t \in Loaders |-> IdleLoad],
           save |-> [pc |-> "idle", started |-> 0, returned |-> 0]]

AuxIdle == BfsIdle /\ BatchIdle /\ EmbIdle

Init == VisInit /\ ConnInit(TRUE) /\ ProxIdle /\ ConcIdle /\ AuxIdle

Next ==
    \/ \E ts \in Timestamps : Ingest(ts)
    \/ \E fid \in FilterIds, mid \in 1..MaxMsg : Score(fid, mid)
    \/ Tick
    \/ \E fm \in FilterModeMaps : Call(fm)
    \/ ReadMatches
    \/ ReadStructural

\* The visibility engine over a store that grows while the clock advances.
Spec == Init /\ [][Next]_vars

InitProx == VisInit /\ ConnInit(TRUE) /\ ProxInit /\ ConcIdle /\ AuxIdle

NextProx == ComputeProximityEdges

\* The proximity edge builder applied to every bounded input.
SpecProx == InitProx /\ [][NextProx]_vars

NextDelta ==
    \/ ComputeProximityEdges
    \/ \E d2 \in 0..MaxDelta : ComputeAgain(d2)

\* The first request leaves max_edges at its default.
InitDelta ==
    /\ VisInit
    /\ ConnInit(TRUE)
    /\ ConcIdle
    /\ AuxIdle
    /\ scores \in ScoreMaps
    /\ delta \in 0..MaxDelta
    /\ max_edges = DefaultMaxEdges
    /\ max_neighbors \in 0..MaxNeighborCap
    /\ prox_pc = "init"
    /\ prox_ret = NoProxReturn
    /\ prev_delta = 0
    /\ prev_ret = NoProxReturn

\* Two requests in a row over the same scores, the second with any delta.
SpecDelta == InitDelta /\ [][NextDelta]_vars

\* A second request for the same query text, delta and max_neighbors with
\* max_edges = m.
ComputeCapped(m) ==
    /\ prox_pc = "done"
    /\ prev_delta' = delta
    /\ prev_ret' = prox_ret
    /\ max_edges' = m
    /\ prox_ret' = compute_proximity_edges(scores, delta, m, max_neighbors)
    /\ prox_pc' = "capped"
    /\ UNCHANGED <<vis_vars, scores, delta, max_neighbors, conc_vars,
                   io_vars, aux_vars>>

NextCap ==
    \/ ComputeProximityEdges
    \/ \E m \in 0..MaxEdgeCap : ComputeCapped(m)

\* Two requests in a row over the same scores, the first with max_edges at
\* its default, the second with any max_edges.
SpecCap == InitDelta /\ [][NextCap]_vars

NextConc ==
    \/ \E ts \in ConcTimestamps : StoreIngest(ts)
    \/ \E fid \in FilterIds, mid \in 1..MaxConcMsg : StoreScore(fid, mid)
    \/ \E c \in Invocations, fm \in ConcModeMaps : ConcCall(c, fm)
    \/ \E c \in Invocations : ConcReadMatches(c)
    \/ \E c \in Invocations : ConcReadStructural(c)

\* Two invocations with different filter_modes interleaved at their queries.
SpecConc == Init /\ [][NextConc]_vars

\* The caller passes a connection or leaves conn at None.
InitFail ==
    /\ VisInit
    /\ \E owns \in BOOLEAN : ConnInit(owns)
    /\ ProxIdle
    /\ ConcIdle
    /\ AuxIdle

NextFail ==
    \/ \E ts \in ConcTimestamps : StoreIngest(ts)
    \/ \E fid \in FilterIds, mid \in 1..MaxConcMsg : StoreScore(fid, mid)
    \/ Tick
    \/ \E fm \in FilterModeMaps : Call(fm)
    \/ ReadMatches
    \/ ReadStructural
    \/ \E fm \in FilterModeMaps : WindowReadFails(fm)
    \/ MatchReadFails
    \/ StructuralReadFails

\* One call in which any of the three store reads may raise.
SpecFail == InitFail /\ [][NextFail]_vars

----------------------------------------------------------------------------
(***************************************************************************)
(* The embedding store and its module-level cache: _load_cache on request  *)
(* threads, save_embeddings on the thread of a generate request.           *)
(***************************************************************************)

\* _load_cache, the first critical section: the cached value is returned if
\* there is one.  `after` keeps how many saves had returned when the call
\* started.
LoadCheck(t) ==
    /\ emb.load[t].pc \in {"idle", "done"}
    /\ emb.load[t].calls < MaxLoads
    /\ emb' = [emb EXCEPT !.load[t] =
                 IF emb.cache.is_none
                 THEN [pc |-> "read", snap |-> {}, ret |-> NoCache,
                       after |-> emb.save.returned, calls |-> @.calls + 1]
                 ELSE [pc |-> "done", snap |-> {}, ret |-> emb.cache,
                       after |-> emb.save.returned, calls |-> @.calls + 1]]
    /\ UNCHANGED <<vis_vars, prox_vars, conc_vars, io_vars, bfs, batch>>

\* _load_cache, outside the lock: the SELECT over message_embeddings.
LoadRead(t) ==
    /\ emb.load[t].pc = "read"
    /\ emb' = [emb EXCEPT !.load[t].pc = "store", !.load[t].snap = emb.db]
    /\ UNCHANGED <<vis_vars, prox_vars, conc_vars, io_vars, bfs, batch>>

\* _load_cache, the second critical section: the matrix just built is stored
\* and returned.
LoadStore(t) ==
    /\ emb.load[t].pc = "store"
    /\ LET cache == [is_none |-> FALSE, ids |-> emb.load[t].snap]
       IN  emb' = [emb EXCEPT !.cache = cache,
                              !.load[t].pc = "done", !.load[t].ret = cache]
    /\ UNCHANGED <<vis_vars, prox_vars, conc_vars, io_vars, bfs, batch>>

\* save_embeddings up to conn.commit(): the k-th call stores the vector of
\* message k.
SaveCommit ==
    /\ emb.save.pc = "idle"
    /\ emb.save.started < MaxSaves
    /\ emb' = [emb EXCEPT !.db = @ \cup {emb.save.started + 1},
                          !.save.pc = "committed",
                          !.save.started = @ + 1]
    /\ UNCHANGED <<vis_vars, prox_vars, conc_vars, io_vars, bfs, batch>>

\* save_embeddings: _invalidate_cache() and the return.
SaveInvalidate ==
    /\ emb.save.pc = "committed"
    /\ emb' = [emb EXCEPT !.cache = NoCache,
                          !.save.pc = "idle",
                          !.save.returned = @ + 1]
    /\ UNCHANGED <<vis_vars, prox_vars, conc_vars, io_vars, bfs, batch>>

NextCache ==
    \/ \E t \in Loaders : LoadCheck(t)
    \/ \E t \in Loaders : LoadRead(t)
    \/ \E t \in Loaders : LoadStore(t)
    \/ SaveCommit
    \/ SaveInvalidate

\* Request threads loading the cache while embeddings are saved.
SpecCache == Init /\ [][NextCache]_vars

----------------------------------------------------------------------------
(***************************************************************************)
(* _batched_query applied to id lists of any length.                       *)
(***************************************************************************)

_BATCH_SIZE == 900

Range(s) == {s[k] : k \in 1..Len(s)}

\* cur.execute of the template with an IN list, then cur.fetchall(): the rows
\* of the table whose filter_id is in the list, in the table's order.
InQuery(tbl, idlist) == SelectSeq(tbl, LAMBDA r : r.filter_id \in Range(idlist))

\* Faulty variant of BatchSlice: the slice runs one id into the next batch.
BatchSlice_Overlap(ids, i) == SubSeq(ids, i + 1, Min(i + _BATCH_SIZE + 1, Len(ids)))

\* ids[i:i + _BATCH_SIZE]
BatchSlice(ids, i) == SubSeq(ids, i + 1, Min(i + _BATCH_SIZE, Len(ids)))

\* for i in range(0, len(ids), _BATCH_SIZE): one query per slice, its rows
\* appended to rows.  `issued` records the IN list of every query.
RECURSIVE BatchLoop(_, _, _, _, _)
BatchLoop(tbl, ids, i, rows, issued) ==
    IF i >= Len(ids) THEN [rows |-> rows, issued |-> issued]
    ELSE LET b == BatchSlice(ids, i)
         IN  BatchLoop(tbl, ids, i + _BATCH_SIZE, rows \o InQuery(tbl, b), Append(issued, b))

batched_query(tbl, ids) == BatchLoop(tbl, ids, 0, <<>>, <<>>)

\* Lengths next to every multiple of the batch size.
BatchLens ==
    {n \in {k * _BATCH_SIZE + d : k \in 0..MaxBatches, d \in {-1, 0, 1}} : n >= 0}

\* The callers pass the keys of a dict: n distinct ids, in either order.
IdLists(n) == {[i \in 1..n |-> i], [i \in 1..n |-> n + 1 - i]}

\* Rows the result table may hold, in the table's order: ids on both sides of
\* a batch boundary, two rows of one id, and an id no list names.
CandidateRows ==
    << [filter_id |-> _BATCH_SIZE + 1, message_id |-> 1],
       [filter_id |-> 1, message_id |-> 1],
       [filter_id |-> _BATCH_SIZE, message_id |-> 2],
       [filter_id |-> 1, message_id |-> 2],
       [filter_id |-> 0, message_id |-> 3] >>

Tables ==
    {SelectSeq(CandidateRows, LAMBDA r : r \in S) : S \in SUBSET Range(CandidateRows)}

InitBatch ==
    /\ VisInit
    /\ ConnInit(TRUE)
    /\ ProxIdle
    /\ ConcIdle
    /\ BfsIdle
    /\ EmbIdle
    /\ \E n \in BatchLens, tbl \in Tables :
           \E ids \in IdLists(n) :
               batch = [pc |-> "init", ids |-> ids, table |-> tbl,
                        rows |-> <<>>, issued |-> <<>>]

BatchedQuery ==
    /\ batch.pc = "init"
    /\ LET r == batched_query(batch.table, batch.ids)
       IN  batch' = [batch EXCEPT !.pc = "done", !.rows = r.rows, !.issued = r.issued]
    /\ UNCHANGED <<vis_vars, prox_vars, conc_vars, io_vars, bfs, emb>>

NextBatch == BatchedQuery

\* One application of _batched_query to a list of distinct ids.
SpecBatch == InitBatch /\ [][NextBatch]_vars

----------------------------------------------------------------------------
(***************************************************************************)
(* _bfs_expand applied to arbitrary arguments.                             *)
(***************************************************************************)

BfsNodes == 1..MaxBfsNodes

\* Neighbour lists: up to two distinct ids, none the node itself.
BfsLists(n) ==
    {SortAsc(S) : S \in {T \in SUBSET (BfsNodes \ {n}) : Cardinality(T) <= 2}}

\* adj: a dict whose keys are some of the nodes; a seed or a neighbour may be
\* missing from the keys.
BfsAdjs ==
    {a \in UNION {[D -> UNION {BfsLists(n) : n \in BfsNodes}] : D \in SUBSET BfsNodes} :
        \A n \in DOMAIN a : a[n] \in BfsLists(n)}

InitBfs ==
    /\ VisInit
    /\ ConnInit(TRUE)
    /\ ProxIdle
    /\ ConcIdle
    /\ BatchIdle
    /\ EmbIdle
    /\ \E s \in SUBSET BfsNodes, d \in 0..MaxBfsDepth, a \in BfsAdjs :
           bfs = [pc |-> "init", seeds |-> s, depth |-> d, adj |-> a, ret |-> {}]

BfsExpand ==
    /\ bfs.pc = "init"
    /\ bfs' = [bfs EXCEPT !.pc = "done",
                          !.ret = bfs_expand(bfs.seeds, bfs.depth, bfs.adj)]
    /\ UNCHANGED <<vis_vars, prox_vars, conc_vars, io_vars, batch, emb>>

NextBfs == BfsExpand

\* One application of _bfs_expand to any seeds, depth and adj.
SpecBfs == InitBfs /\ [][NextBfs]_vars

----------------------------------------------------------------------------
(***************************************************************************)
(* Vocabulary of the properties, stated on the store and on the returned   *)
(* value, independently of the operators above.                            *)
(***************************************************************************)

Done == pc = "done"

\* The ids of the returned list.
VisibleIds == {ret.visible_message_ids[k] : k \in 1..Len(ret.visible_message_ids)}

\* Messages stored when the call queried the window whose timestamp is not
\* before the window start.
InWindow == {i \in 1..seen : messages[i].timestamp >= since}

\* Messages a filter is recorded to match (matched = true).
Matched(fid) ==
    {mid \in 1..MaxMsg :
        [filter_id |-> fid, message_id |-> mid, matches |-> 1] \in results}

ModeIs(fid, modeset) == fid \in DOMAIN filter_modes /\ filter_modes[fid] \in modeset

ActiveFilters == {fid \in FilterIds : ModeIs(fid, Modes \ {"off"})}

IncludeFamily == {"include", "include_plus_1", "include_plus_2"}

Excluded == UNION {Matched(fid) : fid \in {f \in FilterIds : ModeIs(f, {"exclude"})}}

\* Messages the structural query sees: the store and the clock do not change
\* once the call has returned.
StructWindow == {i \in 1..Len(messages) : messages[i].timestamp >= now - Hours}

\* A structural edge: same session, and no message seen by the structural
\* query lies between the two in sequence_num.
StructEdge(a, b) ==
    /\ a /= b
    /\ a \in StructWindow /\ b \in StructWindow
    /\ messages[a].session_id = messages[b].session_id
    /\ ~ \E c \in StructWindow :
           /\ messages[c].session_id = messages[a].session_id
           /\ \/ messages[a].sequence_num < messages[c].sequence_num
                 /\ messages[c].sequence_num < messages[b].sequence_num
              \/ messages[b].sequence_num < messages[c].sequence_num
                 /\ messages[c].sequence_num < messages[a].sequence_num

Universe == 1..MaxMsg

WithinOne(a, b) == a = b \/ StructEdge(a, b)

\* b is at most d structural-edge hops away from a (d in 0..2).
WithinHops(a, b, d) ==
    CASE d = 0 -> a = b
      [] d = 1 -> WithinOne(a, b)
      [] OTHER -> \E c \in Universe : WithinOne(a, c) /\ WithinOne(c, b)

DepthOf(mode) ==
    CASE mode = "include_plus_1" -> 1
      [] mode = "include_plus_2" -> 2
      [] OTHER -> 0

\* In-window seeds of a filter.
Seeds(fid) == Matched(fid) \cap InWindow

\* What an include-family filter is meant to contribute.
Expected(fid) ==
    {n \in InWindow :
        \E s \in Seeds(fid) : WithinHops(s, n, DepthOf(filter_modes[fid]))}

IncludeFilters == {fid \in FilterIds : ModeIs(fid, IncludeFamily)}

----------------------------------------------------------------------------
(***************************************************************************)
(* Properties of compute_visible_set (specification Spec).                 *)
(***************************************************************************)

\* C1: visible_message_ids is null exactly when no entry of filter_modes has
\* a mode other than off (empty map or all off), and then visible_count
\* equals total_nodes; with any non-off entry the list is non-null.
C1_NullIffNoActiveFilter ==
    Done =>
        /\ ret.is_none <=> (\A fid \in DOMAIN filter_modes : filter_modes[fid] = "off")
        /\ ret.is_none => ret.visible_count = ret.total_nodes

C1_Witness ==
    /\ Done
    /\ DOMAIN filter_modes = FilterIds
    /\ \A fid \in FilterIds : filter_modes[fid] = "off"
    /\ ret.is_none
    /\ ret.total_nodes > 0

\* C2: a node matched by a filter in mode exclude is never in the returned
\* list, whether an include match, an expansion or the all-nodes base set
\* brought it in.
C2_ExcludeWins ==
    (Done /\ ~ret.is_none) => VisibleIds \cap Excluded = {}

C2_Witness ==
    /\ Done
    /\ \E fx \in FilterIds, fi \in FilterIds, n \in InWindow :
          /\ ModeIs(fx, {"exclude"})
          /\ ModeIs(fi, {"include_plus_1"})
          /\ n \in Matched(fx)
          /\ n \notin Matched(fi)
          /\ n \in Expected(fi)
          /\ n \notin VisibleIds
          /\ VisibleIds /= {}

\* C3: when every active filter is in mode include, the visible set is the
\* union of (matched set intersected with the window) over those filters; a
\* filter without matches contributes nothing and the list is empty, not null.
C3_IncludeUnion ==
    (Done /\ ActiveFilters /= {} /\ \A fid \in ActiveFilters : ModeIs(fid, {"include"}))
        => /\ ~ret.is_none
           /\ VisibleIds = UNION {Matched(fid) \cap InWindow : fid \in ActiveFilters}

C3_Witness ==
    /\ Done
    /\ ActiveFilters = FilterIds
    /\ \A fid \in FilterIds : ModeIs(fid, {"include"})
    /\ \A fid \in FilterIds : Seeds(fid) /= {}
    /\ \E f1 \in FilterIds, f2 \in FilterIds : Seeds(f1) /= Seeds(f2)
    /\ Cardinality(VisibleIds) = 2

\* C4: with an active filter and no active include-family filter, the visible
\* set is the window minus the matched sets of the exclude filters.
C4_ExcludeOnly ==
    (Done /\ ActiveFilters /= {} /\ IncludeFilters = {})
        => /\ ~ret.is_none
           /\ VisibleIds = InWindow \ Excluded

C4_Witness ==
    /\ Done
    /\ ActiveFilters /= {}
    /\ IncludeFilters = {}
    /\ Excluded \cap InWindow /= {}
    /\ VisibleIds /= {}

C6_NoCrossSession ==
    (Done /\ IncludeFilters /= {})
        => \A n \in VisibleIds :
              \E fid \in IncludeFilters :
                 \/ n \in Matched(fid)
                 \/ /\ ModeIs(fid, {"include_plus_1", "include_plus_2"})
                    /\ \E s \in Seeds(fid) :
                          messages[s].session_id = messages[n].session_id

\* The seed is the last row of sess-a, the first row of sess-b follows it in
\* the (session_id, sequence_num) order and is in the window.
C6_Witness ==
    /\ Done
    /\ \E fid \in FilterIds, s \in InWindow, n \in InWindow :
          /\ ActiveFilters = {fid}
          /\ ModeIs(fid, {"include_plus_1", "include_plus_2"})
          /\ Seeds(fid) = {s}
          /\ messages[s].session_id = "sess-a"
          /\ messages[n].session_id = "sess-b"
          /\ s \in StructWindow /\ n \in StructWindow
          /\ \A c \in StructWindow :
                /\ messages[c].session_id = "sess-a"
                      => messages[c].sequence_num <= messages[s].sequence_num
                /\ messages[c].session_id = "sess-b"
                      => messages[n].sequence_num <= messages[c].sequence_num
          /\ (n = s + 1 \/ s = n + 1)
          /\ s \in VisibleIds
          /\ n \notin VisibleIds

\* C7: every id of a non-null list is the id of a message inside the queried
\* window, and total_nodes counts the in-window messages only.
C7_VisibleInWindow ==
    (Done /\ ~ret.is_none)
        => /\ VisibleIds \subseteq InWindow
           /\ ret.total_nodes = Cardinality(InWindow)

\* Expansion reaches a message stored after the window-id query.
C7_Witness ==
    /\ Done
    /\ ~ret.is_none
    /\ \E fid \in IncludeFilters, s \in InWindow, n \in StructWindow :
          /\ ModeIs(fid, {"include_plus_1", "include_plus_2"})
          /\ s \in Seeds(fid)
          /\ StructEdge(s, n)
          /\ n \notin InWindow
          /\ s \in VisibleIds
    /\ \E m \in 1..seen : m \notin InWindow

\* C8: a non-null list is strictly ascending and visible_count is its length;
\* total_nodes is the number of in-window messages in every result.
C8_SortedAndCounted ==
    Done =>
        /\ ret.total_nodes = Cardinality(InWindow)
        /\ ~ret.is_none =>
              /\ \A k \in 1..(Len(ret.visible_message_ids) - 1) :
                    ret.visible_message_ids[k] < ret.visible_message_ids[k + 1]
              /\ ret.visible_count = Len(ret.visible_message_ids)

C8_Witness ==
    /\ Done
    /\ ~ret.is_none
    /\ Len(ret.visible_message_ids) >= 3
    /\ ret.total_nodes > ret.visible_count

----------------------------------------------------------------------------
(***************************************************************************)
(* Properties of compute_proximity_edges (specification SpecProx).         *)
(***************************************************************************)

ProxDone == prox_pc = "done"

ScoreDiff(a, b) ==
    IF scores[a] >= scores[b] THEN scores[a] - scores[b] ELSE scores[b] - scores[a]

\* The unordered pairs the returned edges link.
EdgePairs ==
    {{prox_ret.edges[k].source, prox_ret.edges[k].target} : k \in 1..Len(prox_ret.edges)}

\* The unordered pairs of scored nodes whose scores differ by at most delta.
QualifyingPairs ==
    {p \in {{a, b} : a \in DOMAIN scores, b \in DOMAIN scores} :
        /\ Cardinality(p) = 2
        /\ \A a \in p, b \in p : ScoreDiff(a, b) <= delta}

\* C9: every returned edge links two nodes whose scores differ by at most
\* delta, whatever max_edges and max_neighbors are.
C9_EdgesWithinDelta ==
    ProxDone =>
        \A k \in 1..Len(prox_ret.edges) :
            /\ prox_ret.edges[k].source \in DOMAIN scores
            /\ prox_ret.edges[k].target \in DOMAIN scores
            /\ ScoreDiff(prox_ret.edges[k].source, prox_ret.edges[k].target) <= delta

\* Two clusters farther apart than delta, each with an edge inside it.
C9_Witness ==
    /\ ProxDone
    /\ \E p \in EdgePairs, q \in EdgePairs :
          \A a \in p, b \in q : ScoreDiff(a, b) > delta

\* C10: without a degree cap and with max_edges above the number of
\* qualifying pairs, the result is exactly the set of unordered pairs whose
\* score difference is at most delta (a difference equal to delta included),
\* each pair once.
C10_ExactPairSet ==
    (ProxDone /\ max_neighbors = 0 /\ max_edges > Cardinality(QualifyingPairs))
        => /\ EdgePairs = QualifyingPairs
           /\ Len(prox_ret.edges) = Cardinality(QualifyingPairs)
           /\ prox_ret.count = Cardinality(QualifyingPairs)

\* Four nodes, every pair within delta, one pair exactly delta apart.
C10_Witness ==
    /\ ProxDone
    /\ max_neighbors = 0
    /\ max_edges > Cardinality(QualifyingPairs)
    /\ delta > 0
    /\ Len(prox_ret.edges) = 6
    /\ \E p \in EdgePairs : \E a \in p, b \in p : ScoreDiff(a, b) = delta


\* The edges a node is an endpoint of, as positions of the returned list.
EdgesAt(n) ==
    {k \in 1..Len(prox_ret.edges) :
        prox_ret.edges[k].source = n \/ prox_ret.edges[k].target = n}

\* C11: no unordered pair of nodes appears more than once in the returned
\* edge list, whatever the scores, delta, max_edges and max_neighbors are.
C11_NoDuplicatePairs ==
    ProxDone =>
        \A k \in 1..Len(prox_ret.edges), l \in 1..Len(prox_ret.edges) :
            k /= l =>
                {prox_ret.edges[k].source, prox_ret.edges[k].target}
                    /= {prox_ret.edges[l].source, prox_ret.edges[l].target}

\* Three nodes at one score: each is scanned against the ones before it.
C11_Witness ==
    /\ ProxDone
    /\ Len(prox_ret.edges) >= 3
    /\ \E a \in DOMAIN scores, b \in DOMAIN scores, c \in DOMAIN scores :
          /\ a < b /\ b < c
          /\ scores[a] = scores[b] /\ scores[b] = scores[c]
          /\ {{a, b}, {a, c}, {b, c}} \subseteq EdgePairs

\* C12 as stated: every returned edge has source id < target id.
C12_SourceIdBelowTarget ==
    ProxDone =>
        \A k \in 1..Len(prox_ret.edges) :
            prox_ret.edges[k].source < prox_ret.edges[k].target

\* C12, amended: every returned edge is stored with the endpoint that comes
\* first in ascending-score order as its source: the source's score is at most
\* the target's, and source id < target id when the two scores are equal.
C12_SourceScoreNotAboveTarget ==
    ProxDone =>
        \A k \in 1..Len(prox_ret.edges) :
            LET s == prox_ret.edges[k].source
                t == prox_ret.edges[k].target
            IN  /\ s /= t
                /\ scores[s] <= scores[t]
                /\ scores[s] = scores[t] => s < t

\* An edge whose lower-scored endpoint has the larger id, and one between
\* equal scores.
C12_Witness ==
    /\ ProxDone
    /\ \E k \in 1..Len(prox_ret.edges) :
          /\ prox_ret.edges[k].source > prox_ret.edges[k].target
          /\ scores[prox_ret.edges[k].source] < scores[prox_ret.edges[k].target]
    /\ \E k \in 1..Len(prox_ret.edges) :
          scores[prox_ret.edges[k].source] = scores[prox_ret.edges[k].target]

\* C13 as stated: for every max_edges >= 0 the result holds at most max_edges
\* edges.
C13_AtMostMaxEdges ==
    ProxDone =>
        /\ Len(prox_ret.edges) <= max_edges
        /\ prox_ret.count <= max_edges

\* C14: with max_neighbors > 0, no node is an endpoint (source or target) of
\* more than max_neighbors returned edges.
C14_DegreeCap ==
    (ProxDone /\ max_neighbors > 0) =>
        \A n \in DOMAIN scores : Cardinality(EdgesAt(n)) <= max_neighbors

\* A node that is full, and a pair within delta it is left out of.
C14_Witness ==
    /\ ProxDone
    /\ max_neighbors = 2
    /\ \E n \in DOMAIN scores :
          /\ Cardinality(EdgesAt(n)) = max_neighbors
          /\ \E p \in QualifyingPairs : n \in p /\ p \notin EdgePairs

\* C15: the strength of every returned edge lies in [0, 1]; it is
\* 1 - diff/delta when delta > 0 and 1 when delta = 0, diff being the absolute
\* score difference of the endpoints (fractions compared by cross product).
C15_StrengthFormula ==
    ProxDone =>
        \A k \in 1..Len(prox_ret.edges) :
            LET st   == prox_ret.edges[k].strength
                diff == ScoreDiff(prox_ret.edges[k].source, prox_ret.edges[k].target)
            IN  /\ st.den > 0
                /\ 0 <= st.num /\ st.num <= st.den
                /\ delta > 0 => st.num * delta = (delta - diff) * st.den
                /\ delta = 0 => st.num = st.den

\* An edge whose strength is strictly between 0 and 1.
C15_Witness ==
    /\ ProxDone
    /\ delta > 0
    /\ \E k \in 1..Len(prox_ret.edges) :
          /\ ScoreDiff(prox_ret.edges[k].source, prox_ret.edges[k].target) > 0
          /\ 0 < prox_ret.edges[k].strength.num
          /\ prox_ret.edges[k].strength.num < prox_ret.edges[k].strength.den

\* C16: with delta > 0, of any two returned edges the one with the larger
\* score difference has the smaller strength; equal scores give strength 1
\* and a difference equal to delta gives strength 0.
C16_StrengthMonotone ==
    (ProxDone /\ delta > 0) =>
        /\ \A k \in 1..Len(prox_ret.edges), l \in 1..Len(prox_ret.edges) :
              LET e == prox_ret.edges[k]
                  f == prox_ret.edges[l]
              IN  ScoreDiff(e.source, e.target) > ScoreDiff(f.source, f.target)
                    => e.strength.num * f.strength.den < f.strength.num * e.strength.den
        /\ \A k \in 1..Len(prox_ret.edges) :
              LET e == prox_ret.edges[k]
              IN  /\ ScoreDiff(e.source, e.target) = 0 => e.strength.num = e.strength.den
                  /\ ScoreDiff(e.source, e.target) = delta => e.strength.num = 0

\* Edges at difference 0, at a difference in between and at delta.
C16_Witness ==
    /\ ProxDone
    /\ delta = 2
    /\ \A x \in 0..2 :
          \E k \in 1..Len(prox_ret.edges) :
             ScoreDiff(prox_ret.edges[k].source, prox_ret.edges[k].target) = x

\* C19: an empty score map gives edges = [], scores = {} and count = 0; in
\* every result count is the length of the edge list and scores is the
\* scorer's map unchanged.
C19_EmptyAndCount ==
    ProxDone =>
        /\ prox_ret.count = Len(prox_ret.edges)
        /\ prox_ret.scores = scores
        /\ scores = <<>> => (prox_ret.edges = <<>> /\ prox_ret.count = 0)

C19_Witness ==
    /\ ProxDone
    /\ scores = <<>>
    /\ prox_ret = [edges |-> <<>>, scores |-> <<>>, count |-> 0]
    /\ delta > 0 /\ max_edges > 0

----------------------------------------------------------------------------
(***************************************************************************)
(* Properties of two requests over the same scores (specification          *)
(* SpecDelta).                                                             *)
(***************************************************************************)

Again == prox_pc = "again"

\* The unordered pairs the earlier request returned.
PrevPairs ==
    {{prev_ret.edges[k].source, prev_ret.edges[k].target} : k \in 1..Len(prev_ret.edges)}

\* max_edges is never reached at either delta.
CapNeverTriggers == max_edges > Cardinality(QualifyingPairs)

\* C17: without a degree cap and with max_edges never reached, the pairs
\* returned at delta1 are among the pairs returned at delta2 >= delta1 for the
\* same scores.
C17_DeltaMonotone ==
    (Again /\ max_neighbors = 0 /\ CapNeverTriggers /\ prev_delta <= delta)
        => PrevPairs \subseteq EdgePairs

\* The larger delta adds pairs to a non-empty result.
C17_Witness ==
    /\ Again
    /\ max_neighbors = 0
    /\ CapNeverTriggers
    /\ prev_delta < delta
    /\ PrevPairs /= {}
    /\ PrevPairs /= EdgePairs
    /\ PrevPairs \subseteq EdgePairs

\* C18 as stated: the same inclusion under any degree cap max_neighbors > 0.
C18_DeltaMonotoneUnderCap ==
    (Again /\ max_neighbors > 0 /\ CapNeverTriggers /\ prev_delta <= delta)
        => PrevPairs \subseteq EdgePairs

\* C18, amended: under a degree cap, a pair returned at delta1 is returned at
\* delta2 >= delta1 unless one of its endpoints has max_neighbors edges in the
\* result at delta2.
C18_DroppedPairHasFullEndpoint ==
    (Again /\ max_neighbors > 0 /\ CapNeverTriggers /\ prev_delta <= delta)
        => \A p \in PrevPairs \ EdgePairs :
              \E n \in p : Cardinality(EdgesAt(n)) = max_neighbors

\* A pair of the smaller delta displaced by a nearer-in-order neighbour at the
\* larger one.
C18_Witness ==
    /\ Again
    /\ max_neighbors > 0
    /\ CapNeverTriggers
    /\ prev_delta < delta
    /\ PrevPairs \ EdgePairs /= {}
    /\ PrevPairs \cap EdgePairs /= {}

----------------------------------------------------------------------------
(***************************************************************************)
(* Properties of concurrent invocations (specification SpecConc).          *)
(***************************************************************************)

\* C20: under any interleaving of two invocations with different
\* filter_modes over a store nobody else writes, each returns what it returns
\* when run alone, and the store is what it was when the invocation started.
C20_InvocationsIndependent ==
    \A c \in Invocations :
        /\ calls[c].pc /= "idle" => calls[c].store = StoreContent
        /\ calls[c].pc = "done" =>
              calls[c].ret = compute_visible_set(messages, results, now,
                                                 calls[c].filter_modes)

\* Both invocations have returned, one started while the other was between
\* its queries, and they return different non-empty lists.
C20_Witness ==
    /\ overlap
    /\ \A c \in Invocations : calls[c].pc = "done" /\ ~calls[c].ret.is_none
    /\ calls[1].ret.visible_message_ids /= calls[2].ret.visible_message_ids
    /\ \A c \in Invocations : calls[c].ret.visible_count > 0
    /\ \E c \in Invocations : needs_expansion(calls[c].filter_modes)

----------------------------------------------------------------------------
(***************************************************************************)
(* Further properties of compute_visible_set (specification Spec).         *)
(***************************************************************************)

\* The neighbours listed for a node.
AdjSet(n) == {AdjGet(adj, n)[k] : k \in 1..Len(AdjGet(adj, n))}

\* Every node that appears in adj, as key or as neighbour.
AdjNodes == (DOMAIN adj) \cup UNION {AdjSet(n) : n \in DOMAIN adj}

\* The rows the structural query returned.
ChainRows == {adj_rows[k] : k \in 1..Len(adj_rows)}

Expanded == Done /\ needs_expansion(filter_modes)

\* C23 as stated: the adjacency list is scoped to exactly all_ids: every node
\* in it is in all_ids and every all_ids node is placed in its session chain.
C23_AdjScopedToAllIds ==
    Expanded =>
        /\ AdjNodes \subseteq all_ids
        /\ all_ids \subseteq ChainRows

\* C24: adj holds the edge {a, b} iff a and b are in-window messages of one
\* session with no in-window message of that session strictly between them in
\* sequence_num; adj is symmetric, has no self-loop, and no node has more than
\* two neighbours.
C24_AdjacencyExact ==
    Expanded =>
        /\ \A a \in Universe, b \in Universe : b \in AdjSet(a) <=> StructEdge(a, b)
        /\ \A a \in Universe, b \in Universe : b \in AdjSet(a) <=> a \in AdjSet(b)
        /\ \A a \in Universe : a \notin AdjSet(a)
        /\ \A a \in Universe : Len(AdjGet(adj, a)) <= 2
        /\ \A a \in Universe : Len(AdjGet(adj, a)) = Cardinality(AdjSet(a))

\* A chain of three messages of sess-a, ingested around a message of sess-b
\* that is in the window too.
C24_Witness ==
    /\ Expanded
    /\ \E a \in Universe : Len(AdjGet(adj, a)) = 2
    /\ \E b \in StructWindow : messages[b].session_id = "sess-b"

\* The filters whose mode is none of the five known strings.
UnknownFilters == {fid \in FilterIds : ModeIs(fid, Modes \ ({"off", "exclude"} \cup IncludeFamily))}

\* C29: a mode string outside the five known ones raises nothing and counts as
\* an active filter that contributes nothing: the list is non-null, and when
\* no other filter is active it holds every in-window id.
C29_UnknownModeActive ==
    (Done /\ UnknownFilters /= {}) =>
        /\ ~ret.is_none
        /\ ActiveFilters = UnknownFilters => VisibleIds = InWindow
        /\ VisibleIds =
             (IF IncludeFilters = {} THEN InWindow
              ELSE UNION {Expected(fid) : fid \in IncludeFilters}) \ Excluded

\* The only active filter has an unknown mode and matches an in-window message.
C29_Witness ==
    /\ Done
    /\ UnknownFilters /= {}
    /\ ActiveFilters = UnknownFilters
    /\ \E fid \in UnknownFilters : Matched(fid) \cap InWindow /= {}
    /\ Cardinality(InWindow) >= 2
    /\ VisibleIds = InWindow


----------------------------------------------------------------------------
(***************************************************************************)
(* Store reads, failures and resources of compute_visible_set              *)
(* (specifications Spec and SpecFail).                                     *)
(***************************************************************************)

QueryNames == {queries[k] : k \in 1..Len(queries)}

ReadOrder == <<"window", "matches", "structural">>

Failed == pc = "failed"

\* C26: the window-id query comes first and the reads follow in the order
\* window, matches, structural; the structural query is issued exactly when
\* some active mode is include_plus_1 or include_plus_2, whatever the seeds;
\* with no active filter only the window-id query is issued.
C26_ReadOrder ==
    /\ pc /= "idle" =>
           /\ Len(queries) \in 1..3
           /\ queries = SubSeq(ReadOrder, 1, Len(queries))
    /\ Done =>
           /\ ("structural" \in QueryNames) <=>
                  (\E fid \in FilterIds : ModeIs(fid, {"include_plus_1", "include_plus_2"}))
           /\ ("matches" \in QueryNames) <=> ActiveFilters /= {}
           /\ ActiveFilters = {} => queries = <<"window">>

\* A returned call whose expanding filter has no seed and which still read the
\* structural rows of a non-empty window.
C26_Witness ==
    /\ Done
    /\ "structural" \in QueryNames
    /\ InWindow /= {}
    /\ \E fid \in FilterIds :
           /\ ModeIs(fid, {"include_plus_1", "include_plus_2"})
           /\ Seeds(fid) = {}

\* C21: once a store read has raised, the call has ended without a return
\* value, the failed read is the last one issued, and no read was issued twice.
C21_FailFast ==
    /\ Failed <=> failed_read /= "none"
    /\ Failed =>
           /\ ret = NoReturn
           /\ queries[Len(queries)] = failed_read
           /\ \A i, j \in 1..Len(queries) : queries[i] = queries[j] => i = j

\* The structural query raised after matches inside the window were read.
C21_Witness ==
    /\ Failed
    /\ failed_read = "structural"
    /\ queries = ReadOrder
    /\ \E fid \in FilterIds : MatchesGet(filter_matches, fid) \cap all_ids /= {}

----------------------------------------------------------------------------
(***************************************************************************)
(* _bfs_expand (specification SpecBfs).                                    *)
(***************************************************************************)

BfsDone == bfs.pc = "done"

\* adj lists y among the neighbours of x.
BfsEdge(a, x, y) == x \in DOMAIN a /\ \E k \in 1..Len(a[x]) : a[x][k] = y

\* x is at most d edges of a away from a node of S.
RECURSIVE BfsWithin(_, _, _, _)
BfsWithin(a, S, x, d) ==
    \/ x \in S
    \/ d > 0 /\ \E y \in BfsNodes : BfsWithin(a, S, y, d - 1) /\ BfsEdge(a, y, x)

\* C25: _bfs_expand returns exactly the nodes at distance at most depth from a
\* seed; at depth 0 the seeds; the seeds are always in the result; ids missing
\* from adj have no neighbours.
C25_BfsExact ==
    BfsDone =>
        /\ bfs.ret = {x \in BfsNodes : BfsWithin(bfs.adj, bfs.seeds, x, bfs.depth)}
        /\ bfs.depth = 0 => bfs.ret = bfs.seeds
        /\ bfs.seeds \subseteq bfs.ret

\* Depth 2 reaches a node two edges away from every seed, and a node of the
\* result is missing from adj.
C25_Witness ==
    /\ BfsDone
    /\ bfs.depth = 2
    /\ \E x \in bfs.ret : ~BfsWithin(bfs.adj, bfs.seeds, x, 1)
    /\ \E x \in bfs.ret : x \notin DOMAIN bfs.adj

----------------------------------------------------------------------------
(***************************************************************************)
(* _batched_query (specification SpecBatch).                               *)
(***************************************************************************)

BatchDone == batch.pc = "done"

\* ceil(n / 900)
CeilBatches(n) == (n + 899) \div 900

\* Number of times row r occurs in the list of rows s.
Occurrences(s, r) == Cardinality({k \in 1..Len(s) : s[k] = r})

RECURSIVE Concat(_, _)
Concat(ss, k) == IF k > Len(ss) THEN <<>> ELSE ss[k] \o Concat(ss, k + 1)

----------------------------------------------------------------------------
(***************************************************************************)
(* The max_edges cap against the uncapped list (specification SpecCap).    *)
(***************************************************************************)

Capped == prox_pc = "capped"

\* C28: for max_edges = m >= 1 the returned list is the first min(m, total)
\* entries of the list returned for the same scores, delta and max_neighbors
\* at the default max_edges, and the uncapped count is not the smaller one.
C28_CapIsPrefix ==
    (Capped /\ max_edges >= 1) =>
        /\ prox_ret.edges =
               SubSeq(prev_ret.edges, 1,
                      IF max_edges <= Len(prev_ret.edges)
                      THEN max_edges ELSE Len(prev_ret.edges))
        /\ prev_ret.count >= prox_ret.count

\* A cap of two cuts an uncapped list of at least three edges built under a
\* degree cap.
C28_Witness ==
    /\ Capped
    /\ max_edges = 2
    /\ max_neighbors > 0
    /\ Len(prev_ret.edges) >= 3
    /\ Len(prox_ret.edges) = 2

----------------------------------------------------------------------------
(***************************************************************************)
(* Freshness of the embedding cache (specification SpecCache).             *)
(***************************************************************************)

\* The message ids whose vectors the returned save_embeddings calls saved.
SavedBy(n) == 1..n

\* C22: a _load_cache call that started after a save_embeddings call returned
\* returns a matrix holding the vectors that call saved, and the cache never
\* holds a matrix without the vectors of a save whose invalidation has run.
C22_CacheFresh ==
    /\ \A t \in Loaders :
           emb.load[t].pc = "done" => SavedBy(emb.load[t].after) \subseteq emb.load[t].ret.ids
    /\ ~emb.cache.is_none => SavedBy(emb.save.returned) \subseteq emb.cache.ids
=============================================================================
